---- MODULE Spec2Model ----
(***************************************************************************)
(* Model of the Stock Market application (main.py): the two StringVar      *)
(* cells, the cache dictionary, the fetch_data pipeline that every write   *)
(* to a cell triggers, the chart frame and the period label buttons.       *)
(*                                                                         *)
(* Strings are sequences of one-character strings, so that str.upper()     *)
(* and the f-string that builds the cache key are computed, not assumed.   *)
(* A series (the DataFrame returned by Ticker.history) is the sequence of  *)
(* its rows; row i of the provider's answer is the number i.               *)
(***************************************************************************)
EXTENDS Integers, Sequences, FiniteSets, TLC

(***************************************************************************)
(* Bounds of the model.                                                    *)
(***************************************************************************)
\* the data source is called at most MaxCalls times in a behaviour
MaxCalls == 2
\* the provider answers with at most MaxRows rows
MaxRows == 6
\* datetime.now() returns a day in 0..MaxDay
MaxDay == 1

(***************************************************************************)
(* Strings.                                                                *)
(***************************************************************************)
LowerCase == <<"a", "p", "l", "m", "s", "f", "t">>
UpperCase == <<"A", "P", "L", "M", "S", "F", "T">>

\* str.upper() on one character: cased letters are mapped, all else is kept
UpperChar(c) ==
    IF \E i \in 1..Len(LowerCase) : LowerCase[i] = c
    THEN UpperCase[CHOOSE i \in 1..Len(LowerCase) : LowerCase[i] = c]
    ELSE c

\* a conversion that forgets to normalise the case
upper_identity(s) == s

\* self.symbol_string.get().upper()
upper(s) == [i \in 1..Len(s) |-> UpperChar(s[i])]

\* the texts the user submits from the entry box
EntryTexts ==
    { <<>>,
      <<"a", "a", "p", "l">>,
      <<"A", "A", "P", "L">>,
      <<"m", "s", "f", "t">> }

\* texts with the separator of the cache key and with spaces in them
KeyTexts ==
    { <<>>,
      <<"a">>,
      <<"A">>,
      <<"_">>,
      <<" ">>,
      <<"a", "_">>,
      <<"_", "a">>,
      <<"a", " ", "a">>,
      <<"a", "_", "a">>,
      <<"a", "_", "m">> }

\* the labels of the period buttons (settings.TIME_OPTIONS)
Max == <<"M", "a", "x">>
OneYear == <<"1", " ", "Y", "e", "a", "r">>
SixMonths == <<"6", " ", "M", "o", "n", "t", "h", "s">>
Month == <<"M", "o", "n", "t", "h">>
Week == <<"W", "e", "e", "k">>
TIME_OPTIONS == {Max, OneYear, SixMonths, Month, Week}

\* values of the period cell that no case of the match statement names
InvalidPeriods == { <<>>, <<"D", "a", "y">> }

\* the label no button has (last_chosen_button = None)
None == <<"N", "o", "n", "e">>

(***************************************************************************)
(* The steps of fetch_data as operators.                                   *)
(***************************************************************************)
\* a guard that lets the empty symbol through
no_symbol_never(symbol) == FALSE

\* if not symbol: return
no_symbol(symbol) == symbol = <<>>

\* a key that leaves the period out
symbol_period_no_period(symbol, period) == symbol \o <<"_">>

\* symbol_period = f'{symbol}_{period}'
symbol_period(symbol, period) == symbol \o <<"_">> \o period

\* timedelta(days=10)
WEEK_DAYS == 10

\* the answer to a query that is not sent
NoQuery == [kind |-> "none"]

\* a match statement whose default case asks for the full history
query_for_default_max(period, now) ==
    CASE period = Week -> [kind |-> "window", start |-> now - WEEK_DAYS, end |-> now]
      [] period = Month -> [kind |-> "period", period |-> "1mo"]
      [] period = SixMonths -> [kind |-> "period", period |-> "6mo"]
      [] period = OneYear -> [kind |-> "period", period |-> "1y"]
      [] OTHER -> [kind |-> "period", period |-> "max"]

\* a match statement whose '1 Year' case asks for one month
query_for_year_as_month(period, now) ==
    CASE period = Week -> [kind |-> "window", start |-> now - WEEK_DAYS, end |-> now]
      [] period = Month -> [kind |-> "period", period |-> "1mo"]
      [] period = SixMonths -> [kind |-> "period", period |-> "6mo"]
      [] period = OneYear -> [kind |-> "period", period |-> "1mo"]
      [] period = Max -> [kind |-> "period", period |-> "max"]
      [] OTHER -> NoQuery

\* match period: the arguments of stock.history for each case, NoQuery for case _
query_for(period, now) ==
    CASE period = Week -> [kind |-> "window", start |-> now - WEEK_DAYS, end |-> now]
      [] period = Month -> [kind |-> "period", period |-> "1mo"]
      [] period = SixMonths -> [kind |-> "period", period |-> "6mo"]
      [] period = OneYear -> [kind |-> "period", period |-> "1y"]
      [] period = Max -> [kind |-> "period", period |-> "max"]
      [] OTHER -> NoQuery

\* the rows of an answer of n rows
Rows(n) == [i \in 1..n |-> i]

\* a slice that keeps the whole answer
iloc_all(rows) == rows

\* .iloc[-5:]
iloc_last5(rows) ==
    IF Len(rows) <= 5 THEN rows ELSE SubSeq(rows, Len(rows) - 4, Len(rows))

\* what the branch of the match statement binds to data
history_data(period, rows) == IF period = Week THEN iloc_last5(rows) ELSE rows

\* an emptiness test that never fires
empty_never(data) == FALSE

\* data.empty
empty(data) == Len(data) = 0

\* an assignment that is lost
cache_set_lost(c, key, data) == c

\* an assignment that replaces the dictionary by one that holds only the new key
cache_set_alone(c, key, data) == [k \in {key} |-> data]

\* self.cache[symbol_period] = data
cache_set(c, key, data) ==
    [k \in DOMAIN c \cup {key} |-> IF k = key THEN data ELSE c[k]]

\* the record of what each cache key was fetched for, after a fetch
fetched_set(f, key, pair) ==
    [k \in DOMAIN f \cup {key} |-> IF k = key THEN pair ELSE f[k]]

\* a _draw_plot that packs the new canvas without destroying the old ones
draw_plot_keep_old(widgets, data) == Append(widgets, data)

\* the children of the frame after _draw_plot: the old ones are destroyed,
\* the canvas of the new plot is packed
draw_plot(widgets, data) == <<data>>

\* print(f"No data available for {symbol}")
NoDataMessage(symbol) == <<"No data available for ", symbol>>

(***************************************************************************)
(* The state.                                                              *)
(***************************************************************************)
VARIABLES
    phase,               \* "init" until UserInputPanel is built, then "mainloop"
    symbol_string,       \* StockMarket.symbol_string
    period_string,       \* StockMarket.period_string
    cache,               \* StockMarket.cache
    entry,               \* the text of UserInputPanel.entry
    last_chosen_button,  \* UserInputPanel.last_chosen_button (a label, or None)
    text_color,          \* the text colour of each label button
    children,            \* the child widgets of the StockFigure frame
    printed,             \* the lines the last run of fetch_data printed
    query,               \* the query the last run sent to the data source
    drawn,               \* whether the last run called _draw_plot
    raised,              \* whether the last run left fetch_data by an exception
    answer,              \* what stock.history did in the last run
    clock,               \* what datetime.now() returned in the last run
    before,              \* the two cells and the answer as they were before the last write
    ran,                 \* the number of runs of fetch_data the last write triggered
    fetched,             \* for each cache key, the symbol and the period it was fetched for
    shown_key,           \* the cache key of the last run that called _draw_plot
    dsCalls              \* the number of calls of stock.history so far

vars == <<phase, symbol_string, period_string, cache, entry, last_chosen_button,
          text_color, children, printed, query, drawn, raised, answer, clock,
          before, ran, fetched, shown_key, dsCalls>>

\* what a run of fetch_data can change
pipeline == <<cache, children, printed, query, drawn, raised, answer, clock,
              fetched, shown_key, dsCalls>>

\* stock.history was not called, raised, or answered with n rows
NoAnswer == [kind |-> "none"]
Failure == [kind |-> "error"]
Answer(n) == [kind |-> "rows", n |-> n]

\* the cells and the answer of the run that is over
Before == [symbol |-> symbol_string, period |-> period_string, answer |-> answer]

\* datetime.now() was not called, or returned the day now
NoClock == [read |-> FALSE]
ClockRead(now) == [read |-> TRUE, now |-> now]

\* what datetime.now() can return
Clock == 0..MaxDay

\* the days datetime.now() can return in a run on period: only the case
\* 'Week' reads the clock
ClockReads(period) == IF period = Week THEN Clock ELSE {0}

\* the numbers of rows stock.history can answer with
RowCounts == {0, 2, MaxRows}

\* what stock.history can do
Outcomes == {Failure} \cup {Answer(n) : n \in RowCounts}

\* a call of stock.history that is repeated when it fails
history_calls_retry(outcome) == IF outcome = Failure THEN 2 ELSE 1

\* the number of calls of stock.history in a run that misses the cache
history_calls(outcome) == 1

(***************************************************************************)
(* fetch_data, run by the trace on a cell that now holds symbol_cell and   *)
(* period_cell.                                                            *)
(***************************************************************************)
\* the run returns before it looks at the cache
AbortNoSymbol ==
    /\ printed' = <<>>
    /\ query' = NoQuery
    /\ drawn' = FALSE
    /\ raised' = FALSE
    /\ answer' = NoAnswer
    /\ clock' = NoClock
    /\ UNCHANGED <<cache, children, fetched, shown_key, dsCalls>>

\* cache hit: the cached data is drawn
CacheHit(key) ==
    /\ printed' = <<"Cache hit">>
    /\ query' = NoQuery
    /\ children' = draw_plot(children, cache[key])
    /\ drawn' = TRUE
    /\ raised' = FALSE
    /\ answer' = NoAnswer
    /\ clock' = NoClock
    /\ shown_key' = key
    /\ UNCHANGED <<cache, fetched, dsCalls>>

\* cache miss, case _ of the match statement
AbortNoCase ==
    /\ printed' = <<"Cache miss">>
    /\ query' = NoQuery
    /\ drawn' = FALSE
    /\ raised' = FALSE
    /\ answer' = NoAnswer
    /\ clock' = NoClock
    /\ UNCHANGED <<cache, children, fetched, shown_key, dsCalls>>

\* cache miss: stock.history is called with q, and raises or answers
CacheMiss(symbol, period, key, now, q, outcome) ==
    /\ dsCalls < MaxCalls
    /\ dsCalls' = dsCalls + history_calls(outcome)
    /\ query' = [symbol |-> symbol] @@ q
    /\ clock' = IF period = Week THEN ClockRead(now) ELSE NoClock
    /\ answer' = outcome
    /\ IF outcome = Failure
       THEN /\ printed' = <<"Cache miss">>
            /\ drawn' = FALSE
            /\ raised' = TRUE
            /\ UNCHANGED <<cache, children, fetched, shown_key>>
       ELSE LET data == history_data(period, Rows(outcome.n)) IN
            IF empty(data)
            THEN /\ printed' = <<"Cache miss", NoDataMessage(symbol)>>
                 /\ drawn' = FALSE
                 /\ raised' = FALSE
                 /\ UNCHANGED <<cache, children, fetched, shown_key>>
            ELSE /\ printed' = <<"Cache miss">>
                 /\ cache' = cache_set(cache, key, data)
                 /\ fetched' = fetched_set(fetched, key, <<symbol, period>>)
                 /\ shown_key' = key
                 /\ children' = draw_plot(children, data)
                 /\ drawn' = TRUE
                 /\ raised' = FALSE

fetch_data(symbol_cell, period_cell) ==
    LET symbol == upper(symbol_cell)
        period == period_cell
        key == symbol_period(symbol, period)
    IN  IF no_symbol(symbol)
        THEN AbortNoSymbol
        ELSE IF key \in DOMAIN cache
        THEN CacheHit(key)
        ELSE \E now \in ClockReads(period) :
                LET q == query_for(period, now) IN
                IF q = NoQuery
                THEN AbortNoCase
                ELSE \E outcome \in Outcomes :
                        CacheMiss(symbol, period, key, now, q, outcome)

\* a trace that fires only when the value changes
trace_on_change(old, new) == old # new

\* Variable.trace('w', self.fetch_data): the callback runs on every write
trace_w(old, new) == TRUE

\* a fetch_data that writes the normalised symbol back to the cell
symbol_cell_normalised(written) == upper(written)

\* the Symbol cell when fetch_data returns: the run only calls get() on it
symbol_cell_after(written) == written

\* the write of new to a cell that holds old: its trace runs fetch_data
write_runs(old, new, symbol_cell, period_cell) ==
    IF trace_w(old, new)
    THEN ran' = 1 /\ fetch_data(symbol_cell, period_cell)
    ELSE ran' = 0 /\ UNCHANGED pipeline

(***************************************************************************)
(* The user interface.                                                     *)
(***************************************************************************)
HIGHLIGHT_COLOR == "highlight"
TEXT_COLOR == "text"

\* a _set_active that does not reset the label chosen before
set_active_keep_old(button, last, colors) ==
    IF last = button
    THEN colors
    ELSE [colors EXCEPT ![button] = HIGHLIGHT_COLOR]

\* LabelButton._set_active: the text colours after the call
set_active(button, last, colors) ==
    IF last = button
    THEN colors
    ELSE LET reset == IF last # None
                      THEN [colors EXCEPT ![last] = TEXT_COLOR]
                      ELSE colors
         IN  [reset EXCEPT ![button] = HIGHLIGHT_COLOR]

\* LabelButton.set_period
set_period(button) ==
    /\ text_color' = set_active(button, last_chosen_button, text_color)
    /\ last_chosen_button' = button
    /\ period_string' = button
    /\ UNCHANGED symbol_string
    /\ before' = Before
    /\ write_runs(period_string, button, symbol_string, button)

\* UserInputPanel.__init__: the entry box with its default text and the label
\* buttons are created; the button 'Max' calls set_period('Max')
create_widgets ==
    /\ phase = "init"
    /\ phase' = "mainloop"
    /\ entry' = <<"A", "A", "P", "L">>
    /\ text_color' = set_active(Max, last_chosen_button,
                                [b \in TIME_OPTIONS |-> TEXT_COLOR])
    /\ last_chosen_button' = Max
    /\ period_string' = Max
    /\ UNCHANGED symbol_string
    /\ before' = Before
    /\ write_runs(period_string, Max, symbol_string, Max)

\* <Button-1> on the label button
click(button) ==
    /\ phase = "mainloop"
    /\ set_period(button)
    /\ UNCHANGED <<phase, entry>>

\* <Return> in the entry box, which holds text
draw_the_figure(text) ==
    /\ phase = "mainloop"
    /\ entry' = text
    /\ symbol_string' = symbol_cell_after(text)
    /\ UNCHANGED <<phase, period_string, last_chosen_button, text_color>>
    /\ before' = Before
    /\ write_runs(symbol_string, text, text, period_string)

(***************************************************************************)
(* The specifications.                                                     *)
(***************************************************************************)
\* StockMarket.__init__ up to the construction of StockFigure
Init ==
    /\ phase = "init"
    /\ symbol_string = <<>>
    /\ period_string = <<>>
    /\ cache = [k \in {} |-> <<>>]
    /\ entry = <<>>
    /\ last_chosen_button = None
    /\ text_color = [b \in {} |-> TEXT_COLOR]
    /\ children = <<>>
    /\ printed = <<>>
    /\ query = NoQuery
    /\ drawn = FALSE
    /\ raised = FALSE
    /\ answer = NoAnswer
    /\ clock = NoClock
    /\ before = Before
    /\ ran = 0
    /\ fetched = [k \in {} |-> <<>>]
    /\ shown_key = None
    /\ dsCalls = 0

Next ==
    \/ create_widgets
    \/ \E button \in TIME_OPTIONS : click(button)
    \/ \E text \in EntryTexts : draw_the_figure(text)

Spec == Init /\ [][Next]_vars

\* fetch_data as a unit: the cells hold any text, a chart may be displayed
ShownKey == symbol_period(<<"A", "A", "P", "L">>, Max)
InitUnit ==
    /\ phase = "mainloop"
    /\ symbol_string \in EntryTexts
    /\ period_string \in TIME_OPTIONS \cup InvalidPeriods
    /\ \E shown \in BOOLEAN :
          IF shown
          THEN /\ cache = cache_set([k \in {} |-> <<>>], ShownKey, Rows(2))
               /\ fetched = fetched_set([k \in {} |-> <<>>], ShownKey,
                                        <<<<"A", "A", "P", "L">>, Max>>)
               /\ children = draw_plot(<<>>, Rows(2))
               /\ shown_key = ShownKey
          ELSE /\ cache = [k \in {} |-> <<>>]
               /\ fetched = [k \in {} |-> <<>>]
               /\ children = <<>>
               /\ shown_key = None
    /\ entry = symbol_string
    /\ last_chosen_button = Max
    /\ text_color = [b \in TIME_OPTIONS |->
                        IF b = Max THEN HIGHLIGHT_COLOR ELSE TEXT_COLOR]
    /\ printed = <<>>
    /\ query = NoQuery
    /\ drawn = FALSE
    /\ raised = FALSE
    /\ answer = NoAnswer
    /\ clock = NoClock
    /\ before = Before
    /\ ran = 0
    /\ dsCalls = 0

NextUnit ==
    \/ \E button \in TIME_OPTIONS : click(button)
    \/ \E text \in EntryTexts : draw_the_figure(text)

SpecUnit == InitUnit /\ [][NextUnit]_vars

\* the cache key of texts with separators and spaces: the state after the
\* first fetch of a pair, then the writes up to the next call of the data
\* source
InitKeys ==
    \E text \in KeyTexts \ {<<>>}, period \in TIME_OPTIONS :
       LET key == symbol_period(upper(text), period)
           data == history_data(period, Rows(2))
           none == [k \in {} |-> <<>>]
       IN  /\ phase = "mainloop"
           /\ symbol_string = text
           /\ period_string = period
           /\ entry = text
           /\ last_chosen_button = period
           /\ text_color = [b \in TIME_OPTIONS |->
                               IF b = period THEN HIGHLIGHT_COLOR ELSE TEXT_COLOR]
           /\ cache = cache_set(none, key, data)
           /\ fetched = fetched_set(none, key, <<upper(text), period>>)
           /\ children = draw_plot(<<>>, data)
           /\ shown_key = key
           /\ printed = <<"Cache miss">>
           /\ query = [symbol |-> upper(text)] @@ query_for(period, 0)
           /\ clock = IF period = Week THEN ClockRead(0) ELSE NoClock
           /\ answer = Answer(2)
           /\ drawn = TRUE
           /\ raised = FALSE
           /\ before = [symbol |-> <<>>, period |-> period, answer |-> NoAnswer]
           /\ ran = 1
           /\ dsCalls = 1

NextKeys ==
    /\ dsCalls = 1
    /\ \/ \E button \in TIME_OPTIONS : click(button)
       \/ \E text \in KeyTexts : draw_the_figure(text)

SpecKeys == InitKeys /\ [][NextKeys]_vars

(***************************************************************************)
(* Properties.                                                             *)
(***************************************************************************)
\* the cache key of the run that is over
Key == symbol_period(upper(symbol_string), period_string)

\* the run that is over had a symbol and a period of the enumerated set
ValidPair == symbol_string # <<>> /\ period_string \in TIME_OPTIONS

\* the write that triggered the last run left both cells as they were
Repeated == before.symbol = symbol_string /\ before.period = period_string

\* this step runs the pipeline on the cells of the run before
SameCells == symbol_string' = symbol_string /\ period_string' = period_string

\* this step calls neither the data source nor the renderer, and leaves the
\* cache and the chart as they are
NoEffect ==
    /\ dsCalls' = dsCalls
    /\ answer' = NoAnswer
    /\ drawn' = FALSE
    /\ cache' = cache
    /\ children' = children

\* the label buttons that are marked active
Active == {b \in DOMAIN text_color : text_color[b] = HIGHLIGHT_COLOR}

\* the last k rows of the answer of n rows
LastRows(n, k) ==
    LET m == IF n < k THEN n ELSE k IN [i \in 1..m |-> n - m + i]

\* two texts that differ only in letter case
SameLetters(s, t) ==
    /\ Len(s) = Len(t)
    /\ \A i \in 1..Len(s) :
          \/ s[i] = t[i]
          \/ \E j \in 1..Len(LowerCase) :
                {s[i], t[i]} = {LowerCase[j], UpperCase[j]}

\* C1 as stated: for a valid (Symbol, Period), when a run was a cache miss
\* that called the data source, a second run on the same cells is a cache hit
\* that does not call it.
C1_TwoRunsOneCall ==
    [][(ValidPair /\ answer # NoAnswer /\ SameCells)
          => (printed' = <<"Cache hit">> /\ dsCalls' = dsCalls)]_vars

\* C1 as amended: for a valid (Symbol, Period), when a run was a cache miss
\* whose data source call returned a non-empty series, a second run on the
\* same cells is a cache hit that does not call the data source.
C1_TwoRunsOneCallAfterData ==
    [][(ValidPair /\ answer.kind = "rows" /\ answer # Answer(0) /\ SameCells)
          => (printed' = <<"Cache hit">> /\ dsCalls' = dsCalls
              /\ answer' = NoAnswer)]_vars

C1_Witness ==
    /\ ValidPair
    /\ Repeated
    /\ before.answer.kind = "rows"
    /\ before.answer # Answer(0)
    /\ printed = <<"Cache hit">>
    /\ dsCalls = 1

\* C2: no cache entry holds an empty series, and the run that follows an
\* empty answer on the same cells is a cache miss that calls the data source
\* again.
C2_NoEmptyEntry ==
    /\ [](\A k \in DOMAIN cache : cache[k] # <<>>)
    /\ [][(answer = Answer(0) /\ SameCells)
             => (/\ Key \notin DOMAIN cache
                 /\ printed' # <<>>
                 /\ printed'[1] = "Cache miss"
                 /\ answer' # NoAnswer
                 /\ dsCalls' = dsCalls + 1)]_vars

C2_Witness ==
    /\ Repeated
    /\ before.answer = Answer(0)
    /\ answer # NoAnswer
    /\ dsCalls = 2
    /\ Key \notin DOMAIN cache

\* C3: two symbols that differ only in letter case build the same cache key,
\* and once one of them has been fetched the other one, with the same period,
\* is served from that cache entry without a data source call.
C3_CaseInsensitive ==
    [][(/\ symbol_string # <<>>
        /\ drawn
        /\ SameLetters(symbol_string, symbol_string')
        /\ period_string' = period_string)
          => (/\ symbol_period(upper(symbol_string'), period_string') = Key
              /\ printed' = <<"Cache hit">>
              /\ dsCalls' = dsCalls
              /\ answer' = NoAnswer
              /\ cache' = cache
              /\ children' = <<cache[Key]>>)]_vars

C3_Witness ==
    /\ before.symbol = <<"a", "a", "p", "l">>
    /\ symbol_string = <<"A", "A", "P", "L">>
    /\ before.period = period_string
    /\ before.answer.kind = "rows"
    /\ printed = <<"Cache hit">>
    /\ Key \in DOMAIN cache
    /\ children = <<cache[Key]>>

\* C4: a run on an empty Symbol cell, whatever the Period cell holds, calls
\* neither the data source nor the renderer and leaves the cache and the
\* displayed chart as they were.
C4_EmptySymbolAborts ==
    [][symbol_string' = <<>> => NoEffect]_vars

C4_Witness ==
    /\ phase = "mainloop"
    /\ symbol_string = <<>>
    /\ before.symbol # <<>>
    /\ children # <<>>
    /\ DOMAIN cache # {}
    /\ drawn = FALSE

\* C5: a run on a non-empty Symbol and a Period outside {Week, Month,
\* 6 Months, 1 Year, Max} calls neither the data source nor the renderer,
\* writes nothing to the cache and leaves the displayed chart as it was.
C5_InvalidPeriodAborts ==
    [][(/\ symbol_string' # <<>>
        /\ period_string' \notin {Week, Month, SixMonths, OneYear, Max})
          => NoEffect]_vars

C5_Witness ==
    /\ symbol_string # <<>>
    /\ before.symbol # symbol_string
    /\ period_string \in InvalidPeriods
    /\ printed = <<"Cache miss">>
    /\ children # <<>>
    /\ drawn = FALSE

\* C6: when the data source answers a cache miss for a valid pair with an
\* empty series, the run reports that no data is available, the cache and the
\* displayed chart stay as they were and the renderer is not called.
C6_EmptyAnswerAborts ==
    [][answer' = Answer(0)
          => (/\ symbol_string' # <<>>
              /\ period_string' \in TIME_OPTIONS
              /\ printed' = <<"Cache miss", NoDataMessage(upper(symbol_string'))>>
              /\ raised' = FALSE
              /\ drawn' = FALSE
              /\ cache' = cache
              /\ children' = children)]_vars

C6_Witness ==
    /\ answer = Answer(0)
    /\ Len(printed) = 2
    /\ children # <<>>
    /\ DOMAIN cache # {}
    /\ drawn = FALSE

\* C7: when the data source call fails, the failure does not leave the
\* pipeline run, nothing is cached and the displayed chart is unchanged.
C7_FailureContained ==
    [][answer' = Failure
          => (raised' = FALSE /\ cache' = cache /\ children' = children)]_vars

\* C8 as stated: for Week the query of a cache miss is the window that ends
\* at the current date and starts exactly 8 days before, and the series
\* returned for the window is what is cached and rendered.
C8_WeekWindowEightDays ==
    (period_string = Week /\ answer # NoAnswer)
       => (/\ query.kind = "window"
           /\ clock.read
           /\ query.end = clock.now
           /\ query.start = query.end - 8
           /\ (answer.kind = "rows" /\ answer # Answer(0))
                 => (/\ cache[Key] = Rows(answer.n)
                     /\ children = <<Rows(answer.n)>>))

\* C8 as amended: for Week the query of a cache miss is the window that ends
\* at what datetime.now() returns and starts exactly 10 days before, and the
\* last five rows of a non-empty series returned for the window (all of them
\* when there are fewer) are what is cached and rendered.
C8_WeekWindowTenDays ==
    (period_string = Week /\ answer # NoAnswer)
       => (/\ query.kind = "window"
           /\ clock.read
           /\ query.end = clock.now
           /\ query.start = query.end - 10
           /\ (answer.kind = "rows" /\ answer # Answer(0))
                 => (/\ cache[Key] = LastRows(answer.n, 5)
                     /\ children = <<LastRows(answer.n, 5)>>))

C8_Witness ==
    /\ period_string = Week
    /\ query.kind = "window"
    /\ answer = Answer(MaxRows)
    /\ Len(cache[Key]) = 5
    /\ children = <<cache[Key]>>

\* C9: for Month, 6 Months, 1 Year and Max the query of a cache miss is the
\* trailing duration 1mo, 6mo, 1y and max, the clock is not read, and no
\* other period resolves to that query at any time.
C9_Durations ==
    (period_string \in {Month, SixMonths, OneYear, Max} /\ answer # NoAnswer)
       => (/\ clock = NoClock
           /\ query.symbol = upper(symbol_string)
           /\ query.kind = "period"
           /\ query.period = (CASE period_string = Month -> "1mo"
                                [] period_string = SixMonths -> "6mo"
                                [] period_string = OneYear -> "1y"
                                [] period_string = Max -> "max")
           /\ \A p \in TIME_OPTIONS \ {period_string}, t \in Clock :
                 [symbol |-> query.symbol] @@ query_for(p, t) # query)

C9_Witness ==
    /\ period_string = OneYear
    /\ answer.kind = "rows"
    /\ query.kind = "period"
    /\ query.period = "1y"

\* C10: at most one period button is marked active, and a click on a button
\* while another one is active leaves the clicked button as the only active
\* one.
C10_OneActive ==
    [][/\ Cardinality(Active') <= 1
       /\ \A a, b \in TIME_OPTIONS :
             (/\ a # b
              /\ a \in Active
              /\ last_chosen_button # b
              /\ last_chosen_button' = b) => Active' = {b}]_vars

C10_Witness ==
    /\ Active = {Week}
    /\ last_chosen_button = Week
    /\ before.period = Max

\* the state right after startup: the write of 'Max' by the button 'Max' is
\* the last write, no user action has occurred
AtStartup == phase = "mainloop" /\ before.period = <<>>

\* C11 as stated: at startup the button of the default period Max is
\* activated as by a click, and a first chart is rendered before any user
\* action.
C11_StartupRenders ==
    AtStartup
       => (/\ last_chosen_button = Max
           /\ Active = {Max}
           /\ period_string = Max
           /\ drawn
           /\ children # <<>>)

\* C11 as amended: at startup the button of the default period Max is
\* activated as by a click; the run this triggers finds the Symbol cell empty
\* and aborts, so that no chart is rendered before the user submits a symbol.
C11_StartupAborts ==
    AtStartup
       => (/\ last_chosen_button = Max
           /\ Active = {Max}
           /\ period_string = Max
           /\ symbol_string = <<>>
           /\ printed = <<>>
           /\ answer = NoAnswer
           /\ dsCalls = 0
           /\ drawn = FALSE
           /\ children = <<>>)

C11_Witness ==
    /\ AtStartup
    /\ Active = {Max}
    /\ entry = <<"A", "A", "P", "L">>
    /\ children = <<>>

\* C12: the cache only grows: no key is removed and no stored series is
\* replaced, and the cache is written only by a run that missed.
C12_CacheGrows ==
    [][/\ \A k \in DOMAIN cache : k \in DOMAIN cache' /\ cache'[k] = cache[k]
       /\ cache' # cache
             => (/\ symbol_period(upper(symbol_string'), period_string')
                       \notin DOMAIN cache
                 /\ printed' = <<"Cache miss">>
                 /\ answer'.kind = "rows")]_vars

C12_Witness ==
    /\ Cardinality(DOMAIN cache) = 2
    /\ printed = <<"Cache miss">>
    /\ drawn
    /\ \E k \in DOMAIN cache : k # Key

C18_OnePlot ==
    /\ Len(children) <= 1
    /\ children = <<>> <=> DOMAIN cache = {}
    /\ drawn => children = <<cache[Key]>>

C18_Witness ==
    /\ Len(children) = 1
    /\ drawn
    /\ Cardinality(DOMAIN cache) = 2
    /\ before.answer.kind = "rows"
    /\ before.answer # Answer(0)

\* C19: when some period button is marked active, it is the one whose label
\* is the value of the Period cell, also after repeated clicks on one button.
C19_ActiveIsPeriod ==
    Active # {} => Active = {period_string}

C19_Witness ==
    /\ Active = {Week}
    /\ period_string = Week
    /\ before.period = Week
    /\ before.symbol = symbol_string

\* C13: every write to the Symbol or the Period cell triggers exactly one
\* run of the pipeline, also when the value written is the value the cell
\* holds: with the entry in the cache the run is a hit that renders it again.
C13_EveryWriteRuns ==
    [][/\ ran' = 1
       /\ (SameCells /\ Key \in DOMAIN cache)
             => (/\ printed' = <<"Cache hit">>
                 /\ drawn'
                 /\ children' = <<cache[Key]>>
                 /\ dsCalls' = dsCalls)]_vars

C13_Witness ==
    /\ Repeated
    /\ ran = 1
    /\ Active = {period_string}
    /\ before.answer.kind = "rows"
    /\ printed = <<"Cache hit">>
    /\ drawn
    /\ children = <<cache[Key]>>

\* C16: a run of the pipeline calls the data source at most once whatever
\* the outcome, and every call belongs to the run of a write, which has
\* looked the key up in the cache and missed.
C16_NoRetry ==
    [][/\ dsCalls' \in {dsCalls, dsCalls + 1}
       /\ dsCalls' # dsCalls
             => (/\ ran' = 1
                 /\ answer' # NoAnswer
                 /\ printed' # <<>>
                 /\ printed'[1] = "Cache miss"
                 /\ symbol_period(upper(symbol_string'), period_string')
                       \notin DOMAIN cache)]_vars

C16_Witness ==
    /\ Repeated
    /\ before.answer = Failure
    /\ answer.kind = "rows"
    /\ dsCalls = 2

\* C17: a run of the pipeline leaves both cells as written: the Symbol cell
\* changes only to the text of the entry box, the Period cell only to the
\* label of the clicked button, never both in one step, and the write runs
\* the pipeline once.
C17_CellsWrittenByUI ==
    [][/\ ran' = 1
       /\ symbol_string' # symbol_string
             => (symbol_string' = entry' /\ period_string' = period_string)
       /\ period_string' # period_string
             => (/\ period_string' = last_chosen_button'
                 /\ symbol_string' = symbol_string)
       /\ phase = "mainloop" /\ entry' # entry => symbol_string' = entry']_vars

C17_Witness ==
    /\ symbol_string = <<"a", "a", "p", "l">>
    /\ entry = symbol_string
    /\ before.symbol # symbol_string
    /\ drawn
    /\ Key \in DOMAIN cache
    /\ ran = 1

\* C20: a displayed chart shows the cache entry under the key of the last
\* run that reached the renderer; the runs that abort leave it displayed,
\* also when the cells then name another query.
C20_ChartShowsLastRendered ==
    /\ children = <<>> <=> shown_key = None
    /\ children # <<>>
          => (shown_key \in DOMAIN cache /\ children = <<cache[shown_key]>>)
    /\ drawn => shown_key = Key

C20_Witness ==
    /\ children # <<>>
    /\ drawn = FALSE
    /\ symbol_string # <<>>
    /\ answer \in {Failure, Answer(0)}
    /\ Key # shown_key
    /\ Key \notin DOMAIN cache

\* the symbols fetch_data builds keys of
KeySymbols == {upper(text) : text \in KeyTexts \cup EntryTexts} \ {<<>>}

\* C15: two distinct pairs of an uppercased symbol and a valid period have
\* distinct cache keys, also when the symbol holds the separator or spaces,
\* and a cache hit returns the series that was fetched for the symbol and the
\* period of the run.
C15_KeysDistinct ==
    /\ \A k \in DOMAIN cache :
          /\ k \in DOMAIN fetched
          /\ \A symbol \in KeySymbols, period \in TIME_OPTIONS :
                symbol_period(symbol, period) = k
                   => fetched[k] = <<symbol, period>>
    /\ printed = <<"Cache hit">>
          => (/\ Key \in DOMAIN cache
              /\ fetched[Key] = <<upper(symbol_string), period_string>>
              /\ children = <<cache[Key]>>)

C15_Witness ==
    /\ printed = <<"Cache hit">>
    /\ symbol_string = <<"a", "_", "a">>
    /\ before.symbol # symbol_string
    /\ fetched[Key] = <<upper(symbol_string), period_string>>

====
